---- MODULE Spec2Model ----
(***************************************************************************)
(* Model of mixgram-core's git history operations (package core):          *)
(* PushCommit, FetchCommits, TrimOldCommits, DeleteCommit, ModifyCommit.   *)
(* Every call clones the remote into a private in-memory repository,       *)
(* rewrites or extends the commit chain there, moves the local branch      *)
(* reference and pushes it back.                                           *)
(*                                                                         *)
(* A commit hash is the content address of the encoded commit: the tuple   *)
(* of the encoded fields (tree, parents, author, committer, message), so   *)
(* two commits have the same hash exactly when they encode the same bytes. *)
(***************************************************************************)
EXTENDS Integers, Sequences, FiniteSets, TLC

\* ---------------------------------------------------------------- bounds
MaxLen == 3
MaxTime == 1

\* ------------------------------------------------------------ input sets
Procs == {1, 2}
\* utils.RandomHexString(32): the content PushCommit writes to README.MD
RandomHex == {"r1", "r2"}
\* the messages of the fetched history, by depth (1: the root)
Msgs == <<"a", "b", "c", "d", "e", "f">>
\* the messages ModifyCommit is given: that of the root, and a new one
NewMsgs == {"a", "fixed"}

UserName == "MixGram"
UserEmail == "admin@mixgram.org"

\* plumbing.ZeroHash: the value of an unset plumbing.Hash variable
ZeroHash == <<>>
\* a well-formed hash that names no object of the repository
UnknownHash == <<"deadbeef">>

\* object.Signature{Name: UserName, Email: UserEmail, When: time.Now()}
RewriteSignature(t) == [Name |-> UserName, Email |-> UserEmail, When |-> t]

\* committers the fetched history may carry: the rewriting identity (history
\* written by an earlier call of this program) or somebody else
InitCommitters ==
  {RewriteSignature(0), [Name |-> "dev", Email |-> "dev@example.org", When |-> 0]}

\* ------------------------------------------------------- commits, hashes
\* the content address of an encoded commit (object.Commit.Encode followed by
\* storer.SetEncodedObject): tree, parents, author, committer, message
CommitHash(c) ==
  <<"commit", c.TreeHash, c.ParentHashes, c.Author, c.Committer, c.Message>>

HasObject(objs, h) == \E c \in objs : CommitHash(c) = h

CommitObject(objs, h) == CHOOSE c \in objs : CommitHash(c) = h

\* repo.Log(From: h) followed by ForEach: the commits from h to the root, tip
\* first; the walk ends where a parent cannot be resolved
RECURSIVE Log(_, _)
Log(objs, h) ==
  IF ~HasObject(objs, h) THEN <<>>
  ELSE LET c == CommitObject(objs, h)
       IN IF c.ParentHashes = <<>> THEN <<c>>
          ELSE <<c>> \o Log(objs, c.ParentHashes[1])

Range(s) == {s[k] : k \in 1..Len(s)}

\* the objects a clone of (or a push from) a repository at tip h transfers
Reachable(objs, h) == Range(Log(objs, h))

\* a linear chain, root first, built from the per-commit data
RECURSIVE ChainOf(_)
ChainOf(seeds) ==
  IF seeds = <<>> THEN <<>>
  ELSE LET prev == ChainOf(SubSeq(seeds, 1, Len(seeds) - 1))
           s == seeds[Len(seeds)]
           parents == IF prev = <<>> THEN <<>>
                      ELSE <<CommitHash(prev[Len(prev)])>>
       IN Append(prev, [Author |-> s.Author, Committer |-> s.Committer,
                        Message |-> s.Message, TreeHash |-> s.TreeHash,
                        ParentHashes |-> parents])

\* the per-commit data of the histories the remote starts with: the commit
\* at depth k has its own tree, author and message, and any committer
SeedsAt(k) ==
  [Author : {[Name |-> "author", Email |-> "author@example.org", When |-> k]},
   Committer : InitCommitters, Message : {Msgs[k]},
   TreeHash : {[base |-> k, readme |-> "none"]}]

\* the histories of up to max commits
ChainsUpTo(max) ==
  UNION {{s \in [1..n -> UNION {SeedsAt(k) : k \in 1..n}] :
            \A k \in 1..n : s[k] \in SeedsAt(k)} : n \in 1..max}

InitChains == ChainsUpTo(MaxLen)

\* ----------------------------------------------------------------- state
VARIABLES
  remote,            \* the remote repository: [objs, tip] of its branch
  headIsBranch,      \* whether HEAD of a clone is a branch reference
  now,               \* the clock read by time.Now(), in seconds
  pc,                \* per call: where the running function stands
  call,              \* per call: the function called and its arguments
  store,             \* per call: repo.Storer, the commit objects in memory
  ref,               \* per call: the hash the local branch reference holds
  commits,           \* per call: the commits collected from the log, tip first
  newCommits,        \* per call: the commits to re-create, root first
  i,                 \* per call: the loop index
  currentParentHash, \* per call: the hash of the commit written last
  result,            \* per call: what the function returned
  results,           \* per call: the []SimpleCommit FetchCommits returned
  hist               \* per call: what happened so far (for the properties)

vars == <<remote, headIsBranch, now, pc, call, store, ref, commits, newCommits,
          i, currentParentHash, result, results, hist>>

procVars == <<pc, call, store, ref, commits, newCommits, i, currentParentHash,
           result, results, hist>>

NoCall == [op |-> "none", keep |-> 0, commitHash |-> ZeroHash, msg |-> "",
           max |-> 0]

\* what a caller remembers of the call it made before
NoPrev == [op |-> "none", keep |-> 0, result |-> "none", push |-> "none",
           tip |-> ZeroHash]

\* tip0: the remote tip when the call cloned; made: the hashes returned by
\* SetEncodedObject, in order; events: the store, reference and transport
\* calls made, in order; push: what the transport answered; over: the remote
\* tip the push found; n: the calls made so far; prev: the call before
NoHist == [tip0 |-> ZeroHash, made |-> <<>>, events |-> <<>>, push |-> "none",
           over |-> ZeroHash, n |-> 0, prev |-> NoPrev]

\* no function has been called yet
NoneCalled ==
  /\ headIsBranch \in BOOLEAN
  /\ now = 0
  /\ pc = [p \in Procs |-> "idle"]
  /\ call = [p \in Procs |-> NoCall]
  /\ store = [p \in Procs |-> {}]
  /\ ref = [p \in Procs |-> ZeroHash]
  /\ commits = [p \in Procs |-> <<>>]
  /\ newCommits = [p \in Procs |-> <<>>]
  /\ i = [p \in Procs |-> 0]
  /\ currentParentHash = [p \in Procs |-> ZeroHash]
  /\ result = [p \in Procs |-> "none"]
  /\ results = [p \in Procs |-> <<>>]
  /\ hist = [p \in Procs |-> NoHist]

\* the remote holds a complete linear history
Init ==
  /\ \E seeds \in InitChains :
       LET chain == ChainOf(seeds)
       IN remote = [objs |-> Range(chain), tip |-> CommitHash(chain[Len(chain)])]
  /\ NoneCalled

\* the remote holds a history whose oldest cut commits cannot be read (a
\* shallow or damaged repository), which leaves up to MaxLen commits that
\* can: the walk of the log ends with an error at the first parent that is
\* missing
InitBroken ==
  /\ \E seeds \in ChainsUpTo(MaxLen + 1), cut \in 1..MaxLen :
       /\ cut < Len(seeds)
       /\ LET chain == ChainOf(seeds)
          IN remote = [objs |-> Range(SubSeq(chain, cut + 1, Len(chain))),
                       tip |-> CommitHash(chain[Len(chain)])]
  /\ NoneCalled

\* ------------------------------------------------------------- the calls
KeepValues == -1..(MaxLen + 1)
MaxValues == -1..(MaxLen + 1)

\* the hashes a caller can name: those of the remote chain, and one of none
KnownHashes == {CommitHash(c) : c \in remote.objs} \cup {UnknownHash}

Calls ==
  {[NoCall EXCEPT !.op = "TrimOldCommits", !.keep = k] : k \in KeepValues}
  \cup {[NoCall EXCEPT !.op = "DeleteCommit", !.commitHash = h] : h \in KnownHashes}
  \cup {[NoCall EXCEPT !.op = "ModifyCommit", !.commitHash = h, !.msg = m] :
           h \in KnownHashes, m \in NewMsgs}
  \cup {[NoCall EXCEPT !.op = "FetchCommits", !.max = k] : k \in MaxValues}
  \cup {[NoCall EXCEPT !.op = "PushCommit", !.msg = "readme"] : k \in
           IF Len(Log(remote.objs, remote.tip)) < MaxLen THEN {0} ELSE {}}

Rewrites == {"TrimOldCommits", "DeleteCommit", "ModifyCommit"}

\* Go's 0-based s[k]
At(s, k) == s[k + 1]

Reverse(s) == [k \in 1..Len(s) |-> s[Len(s) + 1 - k]]

\* time.Now() returns t: the clock has not gone back since it was last read
TimeNow(t) ==
  /\ t \in now..MaxTime
  /\ now' = t

\* mutant: the result is set but the function goes on
Return_KeepsRunning(p, r) ==
  /\ pc' = pc
  /\ result' = [result EXCEPT ![p] = r]

\* the function returns r
Return(p, r) ==
  /\ pc' = [pc EXCEPT ![p] = "done"]
  /\ result' = [result EXCEPT ![p] = r]

\* mutant: only the three rewrites test HEAD
ChecksBranch_RewritesOnly(op) == op \in Rewrites

\* the functions that refuse a HEAD that is no branch
ChecksBranch(op) == op # "FetchCommits"

\* the call this caller made before, and how it ended
Previous(p) ==
  [op |-> call[p].op, keep |-> call[p].keep, result |-> result[p],
   push |-> hist[p].push, tip |-> ref[p]]

\* utils.NewSSHAuth, utils.CloneToMemory, repo.Head() and the IsBranch check
\* that open every operation (FetchCommits does not check the branch)
InvokeOf(p, calls) ==
  /\ pc[p] = "idle"
  /\ \E c \in calls, outcome \in {"ok", "auth", "clone"} :
       /\ call' = [call EXCEPT ![p] = c]
       /\ commits' = [commits EXCEPT ![p] = <<>>]
       /\ newCommits' = [newCommits EXCEPT ![p] = <<>>]
       /\ i' = [i EXCEPT ![p] = 0]
       /\ currentParentHash' = [currentParentHash EXCEPT ![p] = ZeroHash]
       /\ results' = [results EXCEPT ![p] = <<>>]
       /\ hist' = [hist EXCEPT ![p] =
                    [NoHist EXCEPT !.tip0 = remote.tip, !.n = hist[p].n + 1,
                                   !.prev = Previous(p)]]
       /\ IF outcome = "auth"
          THEN /\ Return(p, "err_auth")
               /\ store' = [store EXCEPT ![p] = {}]
               /\ ref' = [ref EXCEPT ![p] = ZeroHash]
          ELSE IF outcome = "clone"
          THEN /\ Return(p, "err_clone")
               /\ store' = [store EXCEPT ![p] = {}]
               /\ ref' = [ref EXCEPT ![p] = ZeroHash]
          ELSE /\ store' = [store EXCEPT ![p] = Reachable(remote.objs, remote.tip)]
               /\ ref' = [ref EXCEPT ![p] = remote.tip]
               /\ IF ChecksBranch(c.op) /\ ~headIsBranch
                  THEN Return(p, "err_not_branch")
                  ELSE /\ pc' = [pc EXCEPT ![p] =
                                   IF c.op = "PushCommit" THEN "worktree" ELSE "log"]
                       /\ result' = [result EXCEPT ![p] = "none"]
  /\ UNCHANGED <<remote, headIsBranch, now>>

\* any of the five functions is called, with any arguments
Invoke(p) == InvokeOf(p, Calls)

\* ---------------------------------------------------------- FetchCommits
SimpleCommit(c) ==
  [Hash |-> CommitHash(c), Author |-> c.Author.Name, Email |-> c.Author.Email,
   Message |-> c.Message, Date |-> c.Author.When * 1000]

\* the ForEach callback of FetchCommits: stops with io.EOF once max > 0
\* results are collected
RECURSIVE FetchLoop(_, _, _)
FetchLoop(cs, max, acc) ==
  IF cs = <<>> THEN acc
  ELSE IF max > 0 /\ Len(acc) >= max THEN acc
  ELSE FetchLoop(Tail(cs), max, Append(acc, SimpleCommit(Head(cs))))

\* the walk of the log from h ends with an error: the oldest commit it
\* yields names a parent the store does not hold
WalkFails(objs, h) ==
  LET cs == Log(objs, h)
  IN cs # <<>> /\ cs[Len(cs)].ParentHashes # <<>>

\* the callback of FetchCommits returns io.EOF before the walk of cs ends
FetchStopped(cs, max) == max > 0 /\ max < Len(cs)

\* FetchCommits from repo.Log on; make([]SimpleCommit, 0, max) panics on a
\* negative capacity; an error of ForEach other than io.EOF is returned
FetchCommits(p) ==
  /\ pc[p] = "log"
  /\ call[p].op = "FetchCommits"
  /\ commits' = [commits EXCEPT ![p] = Log(store[p], ref[p])]
  /\ IF call[p].max < 0
     THEN /\ Return(p, "panic")
          /\ UNCHANGED results
     ELSE IF /\ WalkFails(store[p], ref[p])
             /\ ~FetchStopped(Log(store[p], ref[p]), call[p].max)
     THEN /\ Return(p, "err_iterate_log")
          /\ UNCHANGED results
     ELSE /\ Return(p, "nil")
          /\ results' = [results EXCEPT ![p] =
                           FetchLoop(Log(store[p], ref[p]), call[p].max, <<>>)]
  /\ UNCHANGED <<remote, headIsBranch, now, call, store, ref, newCommits, i,
                 currentParentHash, hist>>

\* -------------------------------------------------------- TrimOldCommits
\* mutant: the new root keeps the parent link of the commit it copies
TrimNewRootCommit_KeepsParent(old, t) ==
  [Author |-> old.Author, Committer |-> RewriteSignature(t),
   Message |-> old.Message, TreeHash |-> old.TreeHash,
   ParentHashes |-> old.ParentHashes]

\* the new root: the ancestor's author, message and tree, no parent
TrimNewRootCommit(old, t) ==
  [Author |-> old.Author, Committer |-> RewriteSignature(t),
   Message |-> old.Message, TreeHash |-> old.TreeHash, ParentHashes |-> <<>>]

\* mutant: the re-created commit keeps the parent of the commit it copies
TrimNewCommit_StaleParent(old, parent, t) ==
  [Author |-> old.Author, Committer |-> RewriteSignature(t),
   Message |-> old.Message, TreeHash |-> old.TreeHash,
   ParentHashes |-> old.ParentHashes]

\* a re-created commit above the new root
TrimNewCommit(old, parent, t) ==
  [Author |-> old.Author, Committer |-> RewriteSignature(t),
   Message |-> old.Message, TreeHash |-> old.TreeHash,
   ParentHashes |-> <<parent>>]

\* mutant: a chain of exactly keep commits is rewritten too
TrimNoOp_Strict(n, keep) == n < keep

\* mutant: a keep of zero or less is taken for nothing to trim
TrimNoOp_NonPositive(n, keep) == n <= keep \/ keep <= 0

\* whether TrimOldCommits returns without rewriting
TrimNoOp(n, keep) == n <= keep

\* storer.SetEncodedObject(obj) succeeded for commit c
Stored(p, c) ==
  /\ store' = [store EXCEPT ![p] = @ \cup {c}]
  /\ currentParentHash' = [currentParentHash EXCEPT ![p] = CommitHash(c)]
  /\ hist' = [hist EXCEPT ![p].made = Append(@, CommitHash(c)),
                          ![p].events = Append(@, "write")]

\* the ways one pass of a rewrite loop ends: a commit stored, or an error
\* from oldCommit.Tree(), newCommit.Encode or storer.SetEncodedObject
StepOutcomes == {"ok", "err_tree", "err_encode", "err_store"}

\* the log is collected (the error of ForEach is dropped), the no-op check is
\* made and commits[keep-1] is taken
TrimCollect(p) ==
  /\ pc[p] = "log"
  /\ call[p].op = "TrimOldCommits"
  /\ LET cs == Log(store[p], ref[p])
         keep == call[p].keep
     IN /\ commits' = [commits EXCEPT ![p] = cs]
        /\ IF TrimNoOp(Len(cs), keep)
           THEN Return(p, "nil") /\ UNCHANGED i
           ELSE IF keep - 1 < 0
           THEN Return(p, "panic") /\ UNCHANGED i
           ELSE /\ pc' = [pc EXCEPT ![p] = "root"]
                /\ i' = [i EXCEPT ![p] = keep - 1]
                /\ UNCHANGED result
  /\ UNCHANGED <<remote, headIsBranch, now, call, store, ref, newCommits,
                 currentParentHash, results, hist>>

\* the new root commit is built from commits[keep-1] and stored
TrimRoot(p) ==
  /\ pc[p] = "root"
  /\ call[p].op = "TrimOldCommits"
  /\ \E out \in StepOutcomes :
       IF out = "ok"
       THEN /\ \E t \in now..MaxTime :
                 /\ TimeNow(t)
                 /\ Stored(p, TrimNewRootCommit(At(commits[p], call[p].keep - 1), t))
            /\ i' = [i EXCEPT ![p] = call[p].keep - 2]
            /\ pc' = [pc EXCEPT ![p] =
                        IF call[p].keep - 2 >= 0 THEN "loop" ELSE "setref"]
            /\ UNCHANGED result
       ELSE /\ Return(p, out)
            /\ UNCHANGED <<store, currentParentHash, hist, i, now>>
  /\ UNCHANGED <<remote, headIsBranch, call, ref, commits, newCommits,
                 results>>

\* one pass of: for i := keep - 2; i >= 0; i--
TrimLoop(p) ==
  /\ pc[p] = "loop"
  /\ call[p].op = "TrimOldCommits"
  /\ \E out \in StepOutcomes :
       IF out = "ok"
       THEN /\ \E t \in now..MaxTime :
                 /\ TimeNow(t)
                 /\ Stored(p, TrimNewCommit(At(commits[p], i[p]),
                                          currentParentHash[p], t))
            /\ i' = [i EXCEPT ![p] = @ - 1]
            /\ pc' = [pc EXCEPT ![p] = IF i[p] - 1 >= 0 THEN "loop" ELSE "setref"]
            /\ UNCHANGED result
       ELSE /\ Return(p, out)
            /\ UNCHANGED <<store, currentParentHash, hist, i, now>>
  /\ UNCHANGED <<remote, headIsBranch, call, ref, commits, newCommits,
                 results>>

\* ---------------------------------------------------------- DeleteCommit
\* mutant: targetIndex starts at 0 instead of -1
TargetIndex_ZeroDefault(cs, targetHash) ==
  LET hits == {k \in 0..(Len(cs) - 1) : CommitHash(At(cs, k)) = targetHash}
  IN IF hits = {} THEN 0 ELSE CHOOSE k \in hits : \A j \in hits : j <= k

\* the ForEach callback of DeleteCommit: the 0-based index of the commit whose
\* hash is the target, -1 when there is none
TargetIndex(cs, targetHash) ==
  LET hits == {k \in 0..(Len(cs) - 1) : CommitHash(At(cs, k)) = targetHash}
  IN IF hits = {} THEN -1 ELSE CHOOSE k \in hits : \A j \in hits : j <= k

\* the commits to re-create, root first, without commits[targetIndex]
RECURSIVE DeleteNewCommits(_, _, _)
DeleteNewCommits(cs, targetIndex, k) ==
  IF k < 0 THEN <<>>
  ELSE IF k # targetIndex
  THEN <<At(cs, k)>> \o DeleteNewCommits(cs, targetIndex, k - 1)
  ELSE DeleteNewCommits(cs, targetIndex, k - 1)

\* mutant: the sole-commit check is made before the not-found check
DeleteCheck_SoleFirst(cs, targetIndex) ==
  IF Len(cs) = 1 THEN "err_sole_commit"
  ELSE IF targetIndex = -1 THEN "err_not_found"
  ELSE "ok"

\* the checks DeleteCommit makes on the collected log, in the code's order
DeleteCheck(cs, targetIndex) ==
  IF targetIndex = -1 THEN "err_not_found"
  ELSE IF Len(cs) = 1 THEN "err_sole_commit"
  ELSE "ok"

\* mutant: the re-created commit keeps the parent of the commit it copies
DeleteNewCommit_StaleParent(old, k, parent, t) ==
  [Author |-> old.Author, Committer |-> RewriteSignature(t),
   Message |-> old.Message, TreeHash |-> old.TreeHash,
   ParentHashes |-> old.ParentHashes]

\* mutant: the re-created commit keeps the committer of the commit it copies
DeleteNewCommit_KeepsCommitter(old, k, parent, t) ==
  [Author |-> old.Author, Committer |-> old.Committer,
   Message |-> old.Message, TreeHash |-> old.TreeHash,
   ParentHashes |-> IF k > 0 THEN <<parent>> ELSE <<>>]

\* the commit re-created at position k of newCommits
DeleteNewCommit(old, k, parent, t) ==
  [Author |-> old.Author, Committer |-> RewriteSignature(t),
   Message |-> old.Message, TreeHash |-> old.TreeHash,
   ParentHashes |-> IF k > 0 THEN <<parent>> ELSE <<>>]

DeleteCollect(p) ==
  /\ pc[p] = "log"
  /\ call[p].op = "DeleteCommit"
  /\ LET cs == Log(store[p], ref[p])
         targetIndex == TargetIndex(cs, call[p].commitHash)
         check == DeleteCheck(cs, targetIndex)
     IN /\ commits' = [commits EXCEPT ![p] = cs]
        /\ IF check # "ok"
           THEN Return(p, check) /\ UNCHANGED newCommits
           ELSE /\ newCommits' = [newCommits EXCEPT ![p] =
                                    DeleteNewCommits(cs, targetIndex, Len(cs) - 1)]
                /\ pc' = [pc EXCEPT ![p] = "loop"]
                /\ UNCHANGED result
  /\ UNCHANGED <<remote, headIsBranch, now, call, store, ref, i,
                 currentParentHash, results, hist>>

\* one pass of: for i, oldCommit := range newCommits
DeleteLoop(p) ==
  /\ pc[p] = "loop"
  /\ call[p].op = "DeleteCommit"
  /\ \E out \in StepOutcomes :
       IF out = "ok"
       THEN /\ \E t \in now..MaxTime :
                 /\ TimeNow(t)
                 /\ Stored(p, DeleteNewCommit(At(newCommits[p], i[p]), i[p],
                                            currentParentHash[p], t))
            /\ i' = [i EXCEPT ![p] = @ + 1]
            /\ pc' = [pc EXCEPT ![p] =
                        IF i[p] + 1 < Len(newCommits[p]) THEN "loop" ELSE "setref"]
            /\ UNCHANGED result
       ELSE /\ Return(p, out)
            /\ UNCHANGED <<store, currentParentHash, hist, i, now>>
  /\ UNCHANGED <<remote, headIsBranch, call, ref, commits, newCommits,
                 results>>

\* ---------------------------------------------------------- ModifyCommit
\* the ForEach callback of ModifyCommit
FoundTarget(cs, targetHash) ==
  \E k \in 0..(Len(cs) - 1) : CommitHash(At(cs, k)) = targetHash

\* mutant: the re-created commit keeps the parent of the commit it copies
ModifyNewCommit_StaleParent(old, k, parent, targetHash, newCommitMsg, t) ==
  [Author |-> old.Author, Committer |-> RewriteSignature(t),
   Message |-> IF CommitHash(old) = targetHash THEN newCommitMsg
               ELSE old.Message,
   TreeHash |-> old.TreeHash,
   ParentHashes |-> old.ParentHashes]

\* mutant: the re-created commit keeps the committer of the commit it copies
ModifyNewCommit_KeepsCommitter(old, k, parent, targetHash, newCommitMsg, t) ==
  [Author |-> old.Author, Committer |-> old.Committer,
   Message |-> IF CommitHash(old) = targetHash THEN newCommitMsg
               ELSE old.Message,
   TreeHash |-> old.TreeHash,
   ParentHashes |-> IF k > 0 THEN <<parent>> ELSE <<>>]

\* mutant: every re-created commit gets the new message
ModifyNewCommit_AmendsEvery(old, k, parent, targetHash, newCommitMsg, t) ==
  [Author |-> old.Author, Committer |-> RewriteSignature(t),
   Message |-> newCommitMsg, TreeHash |-> old.TreeHash,
   ParentHashes |-> IF k > 0 THEN <<parent>> ELSE <<>>]

\* the commit re-created at position k of rootToHead
ModifyNewCommit(old, k, parent, targetHash, newCommitMsg, t) ==
  [Author |-> old.Author, Committer |-> RewriteSignature(t),
   Message |-> IF CommitHash(old) = targetHash THEN newCommitMsg
               ELSE old.Message,
   TreeHash |-> old.TreeHash,
   ParentHashes |-> IF k > 0 THEN <<parent>> ELSE <<>>]

ModifyCollect(p) ==
  /\ pc[p] = "log"
  /\ call[p].op = "ModifyCommit"
  /\ LET cs == Log(store[p], ref[p])
     IN /\ commits' = [commits EXCEPT ![p] = cs]
        /\ IF ~FoundTarget(cs, call[p].commitHash)
           THEN Return(p, "err_not_found") /\ UNCHANGED newCommits
           ELSE /\ newCommits' = [newCommits EXCEPT ![p] = Reverse(cs)]
                /\ pc' = [pc EXCEPT ![p] = "loop"]
                /\ UNCHANGED result
  /\ UNCHANGED <<remote, headIsBranch, now, call, store, ref, i,
                 currentParentHash, results, hist>>

\* one pass of: for i, oldCommit := range rootToHead
ModifyLoop(p) ==
  /\ pc[p] = "loop"
  /\ call[p].op = "ModifyCommit"
  /\ \E out \in StepOutcomes :
       IF out = "ok"
       THEN /\ \E t \in now..MaxTime :
                 /\ TimeNow(t)
                 /\ Stored(p, ModifyNewCommit(At(newCommits[p], i[p]), i[p],
                                            currentParentHash[p],
                                            call[p].commitHash, call[p].msg, t))
            /\ i' = [i EXCEPT ![p] = @ + 1]
            /\ pc' = [pc EXCEPT ![p] =
                        IF i[p] + 1 < Len(newCommits[p]) THEN "loop" ELSE "setref"]
            /\ UNCHANGED result
       ELSE /\ Return(p, out)
            /\ UNCHANGED <<store, currentParentHash, hist, i, now>>
  /\ UNCHANGED <<remote, headIsBranch, call, ref, commits, newCommits,
                 results>>

\* ----------------------------------------------------------- publication
\* mutant: the reference is set to the first hash written, not the last
SetReference_FirstHash(p) ==
  /\ pc[p] = "setref"
  /\ call[p].op \in Rewrites
  /\ hist' = [hist EXCEPT ![p].events = Append(@, "setref")]
  /\ ref' = [ref EXCEPT ![p] = hist[p].made[1]]
  /\ pc' = [pc EXCEPT ![p] = "push"]
  /\ UNCHANGED <<remote, headIsBranch, now, call, store, commits, newCommits,
                 i, currentParentHash, results, result>>

\* repo.Storer.SetReference(plumbing.NewHashReference(refName, finalHeadHash))
SetReference(p) ==
  /\ pc[p] = "setref"
  /\ call[p].op \in Rewrites
  /\ hist' = [hist EXCEPT ![p].events = Append(@, "setref")]
  /\ \E ok \in BOOLEAN :
       IF ok
       THEN /\ ref' = [ref EXCEPT ![p] = currentParentHash[p]]
            /\ pc' = [pc EXCEPT ![p] = "push"]
            /\ UNCHANGED result
       ELSE /\ Return(p, "err_set_ref")
            /\ UNCHANGED ref
  /\ UNCHANGED <<remote, headIsBranch, now, call, store, commits, newCommits,
                 i, currentParentHash, results>>

\* mutant: every push is forced
PushAnswers_AlwaysForce(objs, local, remoteTip, force) ==
  IF remoteTip = local THEN {"uptodate"} ELSE {"ok", "error", "lost"}

\* mutant: Force is not passed on, every push is checked for fast-forward
PushAnswers_NeverForce(objs, local, remoteTip, force) ==
  IF remoteTip = local THEN {"uptodate"}
  ELSE IF ~(\E c \in Reachable(objs, local) : CommitHash(c) = remoteTip)
  THEN {"rejected"}
  ELSE {"ok", "error", "lost"}

\* what repo.Push answers for refName:refName: NoErrAlreadyUpToDate when the
\* remote branch already holds the local hash; a rejection when the push is not
\* forced and the remote tip is no ancestor of the local one; else the
\* transport delivers ("ok"), fails before the remote has taken the update
\* ("error"), or fails after it has, the reply being lost ("lost"): repo.Push
\* returns an error in both failures
PushAnswers(objs, local, remoteTip, force) ==
  IF remoteTip = local THEN {"uptodate"}
  ELSE IF ~force /\ ~(\E c \in Reachable(objs, local) : CommitHash(c) = remoteTip)
  THEN {"rejected"}
  ELSE {"ok", "error", "lost"}

\* mutant: the error check after repo.Push is inverted
ForcePushResult_Inverted(answer) == IF answer = "ok" THEN "err_push" ELSE "nil"

\* what a rewrite returns for an answer of repo.Push: every err != nil is
\* wrapped and returned
ForcePushResult(answer) == IF answer = "ok" THEN "nil" ELSE "err_push"

\* what PushCommit returns for an answer of repo.Push
PushCommitResult(answer) ==
  IF answer \in {"ok", "uptodate"} THEN "nil" ELSE "err_push"

\* the answers with which the remote has taken the update
Applied(answer) == answer \in {"ok", "lost"}

\* the remote after a push it has taken
Delivered(p) == [objs |-> Reachable(store[p], ref[p]), tip |-> ref[p]]

\* repo.Push with Force: true, at the end of the three rewrites
ForcePush(p) ==
  /\ pc[p] = "push"
  /\ call[p].op \in Rewrites
  /\ \E answer \in PushAnswers(store[p], ref[p], remote.tip, TRUE) :
       /\ hist' = [hist EXCEPT ![p].events = Append(@, "push"),
                               ![p].push = answer,
                               ![p].over = remote.tip]
       /\ remote' = IF Applied(answer) THEN Delivered(p) ELSE remote
       /\ Return(p, ForcePushResult(answer))
  /\ UNCHANGED <<headIsBranch, now, call, store, ref, commits, newCommits, i,
                 currentParentHash, results>>

\* ------------------------------------------------------------ PushCommit
\* the commit wt.Commit creates: the author also commits, the parent is HEAD
ReadmeCommit(head, headHash, msg, r, t) ==
  [Author |-> RewriteSignature(t), Committer |-> RewriteSignature(t),
   Message |-> msg,
   TreeHash |-> [base |-> head.TreeHash.base, readme |-> r],
   ParentHashes |-> <<headHash>>]

\* README.MD is created and added, and the commit is made
PushCommitCommit(p) ==
  /\ pc[p] = "worktree"
  /\ call[p].op = "PushCommit"
  /\ \E out \in {"ok", "err_create", "err_add", "err_commit"} :
       IF out = "ok"
       THEN \E r \in RandomHex \ {CommitObject(store[p], ref[p]).TreeHash.readme},
               t \in now..MaxTime :
              LET c == ReadmeCommit(CommitObject(store[p], ref[p]), ref[p],
                                    call[p].msg, r, t)
              IN /\ TimeNow(t)
                 /\ Stored(p, c)
                 /\ ref' = [ref EXCEPT ![p] = CommitHash(c)]
                 /\ pc' = [pc EXCEPT ![p] = "push"]
                 /\ UNCHANGED result
       ELSE /\ Return(p, out)
            /\ UNCHANGED <<store, currentParentHash, hist, ref, now>>
  /\ UNCHANGED <<remote, headIsBranch, call, commits, newCommits, i,
                 results>>

\* repo.Push without force, at the end of PushCommit
PushCommitPush(p) ==
  /\ pc[p] = "push"
  /\ call[p].op = "PushCommit"
  /\ \E answer \in PushAnswers(store[p], ref[p], remote.tip, FALSE) :
       /\ hist' = [hist EXCEPT ![p].events = Append(@, "push"),
                               ![p].push = answer,
                               ![p].over = remote.tip]
       /\ remote' = IF Applied(answer) THEN Delivered(p) ELSE remote
       /\ Return(p, PushCommitResult(answer))
  /\ UNCHANGED <<headIsBranch, now, call, store, ref, commits, newCommits, i,
                 currentParentHash, results>>

\* --------------------------------------------------------- specification
Step(p) ==
  \/ Invoke(p)
  \/ FetchCommits(p)
  \/ TrimCollect(p)
  \/ TrimRoot(p)
  \/ TrimLoop(p)
  \/ DeleteCollect(p)
  \/ DeleteLoop(p)
  \/ ModifyCollect(p)
  \/ ModifyLoop(p)
  \/ SetReference(p)
  \/ ForcePush(p)
  \/ PushCommitCommit(p)
  \/ PushCommitPush(p)

\* one call of one of the five functions, on any remote history
Next == Step(1)

Spec == Init /\ [][Next]_vars

\* one call on a remote history that cannot be walked to its root
SpecBroken == InitBroken /\ [][Next]_vars

\* the caller has the result of a call and is free to make the next one
MaxCalls == 2

Again(p) ==
  /\ pc[p] = "done"
  /\ hist[p].n < MaxCalls
  /\ pc' = [pc EXCEPT ![p] = "idle"]
  /\ UNCHANGED <<remote, headIsBranch, now, call, store, ref, commits,
                 newCommits, i, currentParentHash, result, results, hist>>

\* one caller, one call after the other
NextSeq == Step(1) \/ Again(1)

SpecSeq == Init /\ [][NextSeq]_vars

\* two callers at once, each rewriting the branch once, their steps
\* interleaved
\* the rewrites two callers make at once: the arguments are those that pass
\* the checks (a keep within the chain, a target of the chain)
RewriteCalls ==
  {c \in Calls : /\ c.op \in Rewrites
                 /\ c.op = "TrimOldCommits" => c.keep \in 1..MaxLen
                 /\ c.op # "TrimOldCommits" => c.commitHash # UnknownHash
                 /\ c.op = "ModifyCommit" => c.msg = "fixed"}

Rewrite(p) ==
  \/ InvokeOf(p, RewriteCalls)
  \/ TrimCollect(p)
  \/ TrimRoot(p)
  \/ TrimLoop(p)
  \/ DeleteCollect(p)
  \/ DeleteLoop(p)
  \/ ModifyCollect(p)
  \/ ModifyLoop(p)
  \/ SetReference(p)
  \/ ForcePush(p)

NextConc == Rewrite(1) \/ Rewrite(2)

\* the clones have a branch checked out, and the history was committed by
\* somebody else than this program
InitConc ==
  /\ Init
  /\ headIsBranch = TRUE
  /\ \A c \in remote.objs : c.Committer.Name # UserName

SpecConc == InitConc /\ [][NextConc]_vars

\* one caller appends a commit while another rewrites the branch
AppendCalls == {c \in Calls : c.op = "PushCommit"}

AppendReadme(p) ==
  \/ InvokeOf(p, AppendCalls)
  \/ PushCommitCommit(p)
  \/ PushCommitPush(p)

NextAppend == AppendReadme(1) \/ Rewrite(2)

SpecAppend == InitConc /\ [][NextAppend]_vars

\* ------------------------------------------------------------ properties
\* the chain the call cloned, tip first (the store never loses an object)
OrigChain(p) == Log(store[p], hist[p].tip0)

\* the chain the local branch reference names, tip first
NewChain(p) == Log(store[p], ref[p])

\* the chain the remote branch names, tip first
RemoteChain == Log(remote.objs, remote.tip)

\* the call has returned, or ended in a panic
Done(p, op) == pc[p] = "done" /\ call[p].op = op

\* the call got as far as collecting the log
Collected(p) == commits[p] # <<>>

\* 1-based position, tip first, of the commit with hash h in chain cs (0: none)
PositionOf(cs, h) ==
  IF \E k \in 1..Len(cs) : CommitHash(cs[k]) = h
  THEN CHOOSE k \in 1..Len(cs) : CommitHash(cs[k]) = h
  ELSE 0

\* chain cs without its k-th element
Without(cs, k) == SubSeq(cs, 1, k - 1) \o SubSeq(cs, k + 1, Len(cs))

SameContent(c, d) == c.Message = d.Message /\ c.TreeHash = d.TreeHash

\* C1 as stated: for every keep <= L, a TrimOldCommits that ends without
\* reporting an error leaves a chain of exactly keep records that carry the
\* messages and trees of the keep newest original records, the root parentless.
C1_AnyKeep ==
  \A p \in Procs :
    LET orig == OrigChain(p)
        new == NewChain(p)
    IN (Done(p, "TrimOldCommits") /\ Collected(p)
          /\ call[p].keep <= Len(orig) /\ result[p] \in {"nil", "panic"})
       => /\ result[p] = "nil"
          /\ Len(new) = call[p].keep
          /\ \A k \in 1..call[p].keep : SameContent(new[k], orig[k])

\* C1 for keep >= 1: for every keep with 1 <= keep <= L, a TrimOldCommits
\* that returns success leaves, locally and on the remote, a chain of exactly
\* keep records that carry, tip to root, the messages and trees of the keep
\* newest original records, and whose root has no parent; it never panics.
C1_TrimKeepsNewest ==
  \A p \in Procs :
    LET orig == OrigChain(p)
        new == NewChain(p)
    IN (Done(p, "TrimOldCommits") /\ Collected(p)
          /\ 1 <= call[p].keep /\ call[p].keep <= Len(orig))
       => /\ result[p] # "panic"
          /\ result[p] = "nil" =>
               /\ Len(new) = call[p].keep
               /\ \A k \in 1..call[p].keep : SameContent(new[k], orig[k])
               /\ new[call[p].keep].ParentHashes = <<>>
               /\ RemoteChain = new

\* a truncation of 3 commits to 2 that was published
C1_Witness ==
  \E p \in Procs :
    /\ Done(p, "TrimOldCommits") /\ result[p] = "nil"
    /\ call[p].keep = 2 /\ Len(OrigChain(p)) = 3
    /\ hist[p].push = "ok" /\ remote.tip # hist[p].tip0

\* C2: for a chain of length L > 1 and a target hash in it, DeleteCommit does
\* not refuse, and when it returns success the local and the remote chain have
\* L-1 records that carry the messages and trees of the original records other
\* than the target, in the original order; the copy of the record that
\* followed the target has as parent the hash the store returned for the copy
\* of the record that preceded it, or no parent when the target was the root.
C2_DeleteRemovesTarget ==
  \A p \in Procs :
    LET orig == OrigChain(p)
        new == NewChain(p)
        L == Len(orig)
        ti == PositionOf(orig, call[p].commitHash)
        made == hist[p].made
        rest == Without(orig, ti)
    IN (Done(p, "DeleteCommit") /\ Collected(p) /\ L > 1 /\ ti > 0)
       => /\ result[p] \notin {"err_not_found", "err_sole_commit", "panic"}
          /\ result[p] = "nil" =>
               /\ Len(new) = L - 1
               /\ \A k \in 1..(L - 1) : SameContent(new[k], rest[k])
               /\ RemoteChain = new
               /\ Len(made) = L - 1
               /\ ti > 1 =>
                    /\ SameContent(new[ti - 1], orig[ti - 1])
                    /\ new[ti - 1].ParentHashes =
                         IF ti = L THEN <<>> ELSE <<made[L - ti]>>
                    /\ ti < L => /\ made[L - ti] = CommitHash(new[ti])
                                 /\ SameContent(new[ti], orig[ti + 1])

\* the middle commit of 3 was deleted and the result published
C2_Witness ==
  \E p \in Procs :
    /\ Done(p, "DeleteCommit") /\ result[p] = "nil"
    /\ Len(OrigChain(p)) = 3
    /\ PositionOf(OrigChain(p), call[p].commitHash) = 2
    /\ hist[p].push = "ok"

\* C3 as stated: DeleteCommit on a chain of one record fails with
\* CannotDeleteSoleCommit for every target hash.
C3_AlwaysSoleCommitError ==
  \A p \in Procs :
    (Done(p, "DeleteCommit") /\ Len(commits[p]) = 1)
    => result[p] = "err_sole_commit"

\* C3 amended: DeleteCommit on a chain of one record fails for every target
\* hash, with CannotDeleteSoleCommit when the hash is that of the sole record
\* and with CommitNotFound when it is not; either way no object is written,
\* the local reference is not moved and nothing is pushed.
C3_SoleCommitRefused ==
  \A p \in Procs :
    (Done(p, "DeleteCommit") /\ Len(commits[p]) = 1)
    => /\ result[p] = IF call[p].commitHash = CommitHash(commits[p][1])
                      THEN "err_sole_commit" ELSE "err_not_found"
       /\ hist[p].made = <<>>
       /\ hist[p].events = <<>>
       /\ store[p] = Range(commits[p])
       /\ ref[p] = hist[p].tip0
       /\ remote.tip = hist[p].tip0

\* the sole commit was named and the deletion refused
C3_Witness ==
  \E p \in Procs :
    /\ Done(p, "DeleteCommit") /\ Len(commits[p]) = 1
    /\ call[p].commitHash = CommitHash(commits[p][1])
    /\ result[p] = "err_sole_commit"

\* C4: for a target hash in the chain, ModifyCommit does not refuse, and when
\* it returns success the local and the remote chain have the original length,
\* every record has the tree of the original record at its position, the
\* record at the target's position has message newCommitMsg and every other
\* record its original message.
C4_ModifyChangesOneMessage ==
  \A p \in Procs :
    LET orig == OrigChain(p)
        new == NewChain(p)
        ti == PositionOf(orig, call[p].commitHash)
    IN (Done(p, "ModifyCommit") /\ Collected(p) /\ ti > 0)
       => /\ result[p] \notin {"err_not_found", "panic"}
          /\ result[p] = "nil" =>
               /\ Len(new) = Len(orig)
               /\ RemoteChain = new
               /\ \A k \in 1..Len(orig) :
                    /\ new[k].TreeHash = orig[k].TreeHash
                    /\ new[k].Message =
                         IF k = ti THEN call[p].msg ELSE orig[k].Message

\* the message of the middle commit of 3 was changed and the result published
C4_Witness ==
  \E p \in Procs :
    /\ Done(p, "ModifyCommit") /\ result[p] = "nil"
    /\ Len(OrigChain(p)) = 3
    /\ PositionOf(OrigChain(p), call[p].commitHash) = 2
    /\ call[p].msg = "fixed"
    /\ NewChain(p)[2].Message = "fixed"
    /\ hist[p].push = "ok"

\* the chain the call cloned, root first
OrigRootFirst(p) == Reverse(OrigChain(p))

\* 1-based position, root first, of the target of the call (0: none)
TargetRootFirst(p) ==
  IF PositionOf(OrigChain(p), call[p].commitHash) = 0 THEN 0
  ELSE Len(OrigChain(p)) + 1 - PositionOf(OrigChain(p), call[p].commitHash)

\* ModifyCommit has re-created every commit of the chain it collected
AllRecreated(p) ==
  /\ call[p].op = "ModifyCommit"
  /\ Collected(p)
  /\ Len(hist[p].made) = Len(commits[p])

\* C5 as stated: after a successful ModifyCommit the new hash of the target
\* and of every record between it and the tip differs from the original hash
\* of the record at the same position.
C5_HashesAlwaysChange ==
  \A p \in Procs :
    LET orig == OrigRootFirst(p)
    IN (Done(p, "ModifyCommit") /\ result[p] = "nil")
       => \A j \in TargetRootFirst(p)..Len(orig) :
            hist[p].made[j] # CommitHash(orig[j])

\* C5 amended: once ModifyCommit has re-created the chain with a newCommitMsg
\* that differs from the target's original message, the new hash of the target
\* and of every record between it and the tip differs from the original hash
\* of the record at the same position.
C5_HashesChangeWithMessage ==
  \A p \in Procs :
    LET tr == TargetRootFirst(p)
        orig == OrigRootFirst(p)
    IN (AllRecreated(p) /\ tr > 0 /\ call[p].msg # orig[tr].Message)
       => \A j \in tr..Len(orig) : hist[p].made[j] # CommitHash(orig[j])

\* the message of the middle commit of 3 was changed to a different one
C5_Witness ==
  \E p \in Procs :
    /\ Done(p, "ModifyCommit") /\ result[p] = "nil"
    /\ Len(OrigChain(p)) = 3 /\ TargetRootFirst(p) = 2
    /\ call[p].msg # OrigRootFirst(p)[2].Message
    /\ hist[p].made[3] # hist[p].tip0

\* C6 as stated: after a successful ModifyCommit every record strictly below
\* the target has the hash it had in the original chain.
C6_LowerHashesUnchanged ==
  \A p \in Procs :
    LET orig == OrigRootFirst(p)
    IN (Done(p, "ModifyCommit") /\ result[p] = "nil")
       => \A j \in 1..(TargetRootFirst(p) - 1) :
            hist[p].made[j] = CommitHash(orig[j])

\* C6 amended: once ModifyCommit has re-created the chain, every record
\* strictly below the target is a new encoding that keeps the tree, author and
\* message of the original and has the rewriting identity as committer; its
\* hash equals the original hash exactly when the original record and every
\* record below it already had the committer the rewrite gave them.
C6_LowerHashesFollowCommitter ==
  \A p \in Procs :
    LET tr == TargetRootFirst(p)
        orig == OrigRootFirst(p)
        made == hist[p].made
    IN (AllRecreated(p) /\ tr > 0)
       => \A j \in 1..(tr - 1) :
            LET c == CommitObject(store[p], made[j])
            IN /\ c.TreeHash = orig[j].TreeHash
               /\ c.Author = orig[j].Author
               /\ c.Message = orig[j].Message
               /\ c.Committer.Name = UserName
               /\ c.Committer.Email = UserEmail
               /\ (made[j] = CommitHash(orig[j]))
                    <=> (\A m \in 1..j :
                           orig[m].Committer =
                             CommitObject(store[p], made[m]).Committer)

\* the tip of 3 was amended: the root came out with its original hash and
\* the commit above it with a new one
C6_Witness ==
  \E p \in Procs :
    /\ Done(p, "ModifyCommit") /\ result[p] = "nil"
    /\ Len(OrigChain(p)) = 3 /\ TargetRootFirst(p) = 3
    /\ hist[p].made[1] = CommitHash(OrigRootFirst(p)[1])
    /\ hist[p].made[2] # CommitHash(OrigRootFirst(p)[2])

\* C7: whenever the transport answers a push with "already up to date", the
\* operation returns success.
C7_UpToDateIsSuccess ==
  \A p \in Procs :
    (pc[p] = "done" /\ hist[p].push = "uptodate") => result[p] = "nil"

\* C8: a TrimOldCommits that collected a chain of length <= keep returns
\* success, has written no commit, has made no SetReference or Push call, and
\* leaves the store, the local reference and the remote tip as cloned.
C8_TrimNoOp ==
  \A p \in Procs :
    (Done(p, "TrimOldCommits") /\ Collected(p)
       /\ Len(commits[p]) <= call[p].keep)
    => /\ result[p] = "nil"
       /\ hist[p].made = <<>>
       /\ hist[p].events = <<>>
       /\ store[p] = Range(commits[p])
       /\ ref[p] = hist[p].tip0
       /\ remote.tip = hist[p].tip0

\* keep equals the length of a chain of 3
C8_Witness ==
  \E p \in Procs :
    /\ Done(p, "TrimOldCommits") /\ result[p] = "nil"
    /\ Len(commits[p]) = 3 /\ call[p].keep = 3

\* C9: when a rewrite has ended, either it returned success and the remote
\* branch holds the local tip, or the remote branch holds the hash it held
\* when the call cloned; after an error return it is the latter.
C9_AllOrNothing ==
  \A p \in Procs :
    (pc[p] = "done" /\ call[p].op \in Rewrites)
    => /\ \/ result[p] = "nil" /\ remote.tip = ref[p]
          \/ remote.tip = hist[p].tip0
       /\ result[p] # "nil" => remote.tip = hist[p].tip0

\* what holds instead of C9: when a rewrite has ended the remote branch holds
\* either the hash it held when the call cloned or the whole new chain; it
\* holds the new chain after a return of nil, and the old hash after every
\* error but that of a push the remote had taken
C9_OldOrNew ==
  \A p \in Procs :
    (pc[p] = "done" /\ call[p].op \in Rewrites)
    => /\ \/ /\ remote.tip = hist[p].tip0
             /\ store[p] # {} => RemoteChain = OrigChain(p)
          \/ remote.tip = ref[p] /\ RemoteChain = NewChain(p)
       /\ result[p] = "nil" => remote.tip = ref[p]
       /\ (result[p] # "nil" /\ hist[p].push # "lost")
            => remote.tip = hist[p].tip0

\* the remote took the push of a rewrite and the reply was lost: the call
\* returns the error of repo.Push and the remote holds the new chain
C9_ErrorAfterApplied ==
  \E p \in Procs :
    /\ pc[p] = "done" /\ call[p].op \in Rewrites
    /\ result[p] = "err_push" /\ hist[p].push = "lost"
    /\ remote.tip = ref[p]
    /\ remote.tip # hist[p].tip0

\* a rewrite moved the local reference, the push failed, the remote is as it was
C9_Witness ==
  \E p \in Procs :
    /\ pc[p] = "done" /\ call[p].op \in Rewrites
    /\ result[p] = "err_push" /\ hist[p].push = "error"
    /\ ref[p] # hist[p].tip0
    /\ remote.tip = hist[p].tip0

\* the errors of one pass of a rewrite loop
StepErrors == StepOutcomes \ {"ok"}

\* C10: once a rewrite has failed reading a tree, encoding or storing a
\* commit, no SetReference and no Push call has been or will be made: the local
\* reference holds the cloned tip, the whole original chain is read from it,
\* and the remote holds the cloned tip.
C10_LoopErrorAborts ==
  \A p \in Procs :
    (call[p].op \in Rewrites /\ result[p] \in StepErrors)
    => /\ pc[p] = "done"
       /\ \A k \in 1..Len(hist[p].events) : hist[p].events[k] = "write"
       /\ ref[p] = hist[p].tip0
       /\ NewChain(p) = commits[p]
       /\ commits[p][Len(commits[p])].ParentHashes = <<>>
       /\ remote.tip = hist[p].tip0
       /\ RemoteChain = commits[p]

\* storing the third commit failed after two new commits were written
C10_Witness ==
  \E p \in Procs :
    /\ pc[p] = "done" /\ call[p].op \in Rewrites
    /\ result[p] = "err_store"
    /\ Len(hist[p].made) = 2

\* ---------------------------------------------------------------- C11
\* the walk of the log stopped at a parent the store does not hold: ForEach
\* returned an error after it had yielded the commits collected
TraversalFailed(p) ==
  /\ Collected(p)
  /\ commits[p][Len(commits[p])].ParentHashes # <<>>

\* C11: when the walk of the history cannot resolve a parent part-way,
\* TrimOldCommits, DeleteCommit and ModifyCommit fail with a traversal error
\* and do nothing with the partial chain: no object is written, the reference
\* is not moved, nothing is pushed
C11_TraversalErrorAborts ==
  \A p \in Procs :
    (call[p].op \in Rewrites /\ TraversalFailed(p)) =>
      /\ pc[p] = "done"
      /\ result[p] = "err_traversal"
      /\ hist[p].made = <<>>
      /\ hist[p].events = <<>>
      /\ ref[p] = hist[p].tip0
      /\ remote.tip = hist[p].tip0

\* what the code does instead: the partial chain is rewritten as if it were
\* the whole history, published, and the call returns nil
C11_PartialChainPublished ==
  \E p \in Procs :
    /\ Done(p, "DeleteCommit")
    /\ TraversalFailed(p)
    /\ result[p] = "nil"
    /\ remote.tip = ref[p]
    /\ remote.tip # hist[p].tip0
    /\ Len(RemoteChain) = Len(commits[p]) - 1
    /\ RemoteChain[Len(RemoteChain)].ParentHashes = <<>>

\* ---------------------------------------------------------------- C12
\* C12: DeleteCommit and ModifyCommit given a hash that is the hash of no
\* commit of the chain return the commit-not-found error; no object has been
\* written, the local reference and the remote branch are as they were
C12_UnknownTargetRefused ==
  \A p \in Procs :
    ((Done(p, "DeleteCommit") \/ Done(p, "ModifyCommit")) /\ Collected(p)
       /\ PositionOf(commits[p], call[p].commitHash) = 0) =>
      /\ result[p] = "err_not_found"
      /\ hist[p].made = <<>>
      /\ hist[p].events = <<>>
      /\ store[p] = Range(commits[p])
      /\ ref[p] = hist[p].tip0
      /\ remote.tip = hist[p].tip0
      /\ RemoteChain = commits[p]

C12_Witness ==
  \E p \in Procs :
    /\ Done(p, "DeleteCommit")
    /\ Len(commits[p]) >= 2
    /\ PositionOf(commits[p], call[p].commitHash) = 0
    /\ result[p] = "err_not_found"

\* ---------------------------------------------------------------- C13
Min(a, b) == IF a < b THEN a ELSE b

\* the records FetchCommits is to return for max on chain cs: the newest
\* min(max, L) when max > 0, all of them otherwise
Newest(cs, max) ==
  LET n == IF max > 0 THEN Min(max, Len(cs)) ELSE Len(cs)
  IN [k \in 1..n |->
        [Hash |-> CommitHash(cs[k]), Author |-> cs[k].Author.Name,
         Email |-> cs[k].Author.Email, Message |-> cs[k].Message,
         Date |-> cs[k].Author.When * 1000]]

\* C13: FetchCommits on a chain of length L returns, tip first, the
\* min(max, L) newest records when max > 0 and all L records for every
\* max <= 0, each with hash, author name, author email and message
C13_FetchReturnsNewest ==
  \A p \in Procs :
    (Done(p, "FetchCommits") /\ result[p] \notin {"err_auth", "err_clone"}) =>
      /\ result[p] = "nil"
      /\ results[p] = Newest(Log(store[p], ref[p]), call[p].max)

\* C13 for max >= 0
C13_FetchNonNegative ==
  \A p \in Procs :
    (Done(p, "FetchCommits") /\ result[p] \notin {"err_auth", "err_clone"}
       /\ call[p].max >= 0) =>
      /\ result[p] = "nil"
      /\ results[p] = Newest(Log(store[p], ref[p]), call[p].max)

\* a negative max: make([]SimpleCommit, 0, max) panics
C13_NegativeMaxPanics ==
  \E p \in Procs :
    /\ Done(p, "FetchCommits")
    /\ call[p].max < 0
    /\ result[p] = "panic"
    /\ results[p] = <<>>

\* ---------------------------------------------------------------- C14
\* the call before this one was a TrimOldCommits that wrote a chain,
\* published it and returned nil
AfterPublishedTrim(p) ==
  /\ hist[p].prev.op = "TrimOldCommits"
  /\ hist[p].prev.result = "nil"
  /\ hist[p].prev.push = "ok"

\* the records are those of the chain the call before published: exactly
\* keep of them, tip first, with its hashes and messages
ListsPublished(p) ==
  LET chain == Log(remote.objs, hist[p].prev.tip)
  IN /\ result[p] = "nil"
     /\ Len(results[p]) = hist[p].prev.keep
     /\ Len(chain) = hist[p].prev.keep
     /\ \A k \in 1..Len(chain) :
          /\ results[p][k].Hash = CommitHash(chain[k])
          /\ results[p][k].Message = chain[k].Message

\* C14: FetchCommits with an unbounded max (max <= 0), called right after a
\* successful TrimOldCommits(keep = N) by the same caller with no other
\* writer, returns exactly N records whose hashes, messages and order are
\* those of the chain the trim wrote and published
C14_FetchAfterTrim ==
  \A p \in Procs :
    (Done(p, "FetchCommits") /\ result[p] \notin {"err_auth", "err_clone"}
       /\ call[p].max <= 0 /\ AfterPublishedTrim(p)) =>
      ListsPublished(p)

\* C14 for max = 0
C14_FetchAfterTrimZeroMax ==
  \A p \in Procs :
    (Done(p, "FetchCommits") /\ result[p] \notin {"err_auth", "err_clone"}
       /\ call[p].max = 0 /\ AfterPublishedTrim(p)) =>
      ListsPublished(p)

\* the round trip is made, with records to compare
C14_RoundTripMade ==
  \E p \in Procs :
    /\ Done(p, "FetchCommits")
    /\ call[p].max = 0
    /\ AfterPublishedTrim(p)
    /\ hist[p].prev.keep = 2
    /\ Len(results[p]) = 2

\* ---------------------------------------------------------------- C15
\* C15: when HEAD of the clone is no branch reference, PushCommit,
\* TrimOldCommits, DeleteCommit and ModifyCommit return the not-a-branch
\* error before the history is walked, an object written, a reference set or
\* anything pushed
C15_NotABranchRefused ==
  \A p \in Procs :
    (~headIsBranch /\ pc[p] # "idle"
       /\ call[p].op \in Rewrites \cup {"PushCommit"}
       /\ result[p] \notin {"err_auth", "err_clone"}) =>
      /\ pc[p] = "done"
      /\ result[p] = "err_not_branch"
      /\ commits[p] = <<>>
      /\ hist[p].made = <<>>
      /\ hist[p].events = <<>>
      /\ store[p] = Reachable(remote.objs, remote.tip)
      /\ ref[p] = hist[p].tip0
      /\ remote.tip = hist[p].tip0

C15_Witness ==
  \E p \in Procs :
    /\ ~headIsBranch
    /\ Done(p, "PushCommit")
    /\ result[p] = "err_not_branch"
    /\ store[p] # {}

\* ---------------------------------------------------------------- C16
\* a rewrite that re-created commits, published them and returned nil
RewriteSucceeded(p) ==
  /\ call[p].op \in Rewrites
  /\ pc[p] = "done"
  /\ result[p] = "nil"
  /\ hist[p].made # <<>>

\* the j-th commit the call wrote
Made(p, j) == CommitObject(store[p], hist[p].made[j])

\* the hashes of the commits the call collected from the log
OrigHashes(p) == {CommitHash(c) : c \in Range(commits[p])}

\* the new commits form a chain of their own: the first has no parent, each
\* later one has the hash stored for the one before as its only parent, and
\* the last one is the published tip
NewChainLinked(p) ==
  LET made == hist[p].made
  IN /\ Made(p, 1).ParentHashes = <<>>
     /\ \A j \in 2..Len(made) : Made(p, j).ParentHashes = <<made[j - 1]>>
     /\ ref[p] = made[Len(made)]
     /\ remote.tip = made[Len(made)]

\* C16 as stated: the new chain is linked through the new hashes, and no new
\* commit has the hash of an original commit as its parent
C16_NoOriginalParent ==
  \A p \in Procs :
    RewriteSucceeded(p) =>
      /\ NewChainLinked(p)
      /\ \A j \in 1..Len(hist[p].made) :
           \A k \in 1..Len(Made(p, j).ParentHashes) :
             Made(p, j).ParentHashes[k] \notin OrigHashes(p)

\* C16, amended: after a successful rewrite the first new commit has no
\* parent, every later one has the hash stored for the new commit before it
\* as its only parent, and the published tip is the hash of the last one; a
\* new commit's parent is the hash of an original commit only where the new
\* commit before it was encoded to the very bytes of that original, which
\* then already carried the rewriting committer
C16_NewChainLinked ==
  \A p \in Procs :
    RewriteSucceeded(p) =>
      /\ NewChainLinked(p)
      /\ \A j \in 2..Len(hist[p].made) :
           LET h == Made(p, j).ParentHashes[1]
           IN h \in OrigHashes(p) =>
                /\ CommitObject(Range(commits[p]), h) = Made(p, j - 1)
                /\ Made(p, j - 1).Committer.Name = UserName
                /\ Made(p, j - 1).Committer.Email = UserEmail

C16_Witness ==
  \E p \in Procs :
    /\ RewriteSucceeded(p)
    /\ call[p].op = "DeleteCommit"
    /\ Len(hist[p].made) = 2
    /\ Made(p, 2).ParentHashes = <<hist[p].made[1]>>
    /\ hist[p].made[1] \notin OrigHashes(p)

\* ---------------------------------------------------------------- C17
\* the original commit the j-th new commit stands for
Replaced(p, j) ==
  IF call[p].op = "TrimOldCommits" THEN At(commits[p], call[p].keep - j)
  ELSE newCommits[p][j]

\* C17: every commit TrimOldCommits, DeleteCommit or ModifyCommit writes has
\* the tree and the author (name, email, time) of the original it stands for;
\* its committer is UserName, UserEmail at the time of the rewrite, whoever
\* committed the original; its message is the original's, except for the
\* commit ModifyCommit was given, which has the new message
C17_CopiesTreeAndAuthor ==
  \A p \in Procs :
    call[p].op \in Rewrites =>
      \A j \in 1..Len(hist[p].made) :
        LET new == Made(p, j)
            old == Replaced(p, j)
        IN /\ new.TreeHash = old.TreeHash
           /\ new.Author = old.Author
           /\ new.Committer.Name = UserName
           /\ new.Committer.Email = UserEmail
           /\ new.Committer.When \in 0..now
           /\ old.Committer.Name # UserName => new.Committer # old.Committer
           /\ new.Message =
                IF call[p].op = "ModifyCommit"
                   /\ CommitHash(old) = call[p].commitHash
                THEN call[p].msg ELSE old.Message

C17_Witness ==
  \E p \in Procs :
    /\ call[p].op = "DeleteCommit"
    /\ Len(hist[p].made) = 2
    /\ Replaced(p, 2).Committer.Name = "dev"
    /\ Made(p, 2).Committer.Name = UserName
    /\ Made(p, 2).Author = Replaced(p, 2).Author
    /\ Made(p, 2).Author.Name = "author"

\* ---------------------------------------------------------------- C18
\* the number of commits the new chain of the call has
NewChainLength(p) ==
  IF call[p].op = "TrimOldCommits" THEN call[p].keep
  ELSE IF call[p].op = "DeleteCommit" THEN Len(commits[p]) - 1
  ELSE Len(commits[p])

\* C18: a rewrite sets the local branch reference at most once; when it does,
\* every commit of the new chain has been stored and nothing has been pushed.
\* The calls are made in the order: all object writes, one SetReference to
\* the hash written last, one forced push of that reference
C18_WritesThenRefThenPush ==
  \A p \in Procs :
    LET ev == hist[p].events
        made == hist[p].made
    IN (call[p].op \in Rewrites /\ result[p] \notin {"err_auth", "err_clone"}) =>
         /\ \A k \in 1..Len(ev) :
              /\ ev[k] = "write" => k <= Len(made)
              /\ ev[k] = "setref" =>
                   /\ k = Len(made) + 1
                   /\ Len(made) = NewChainLength(p)
                   /\ \A j \in 1..(k - 1) : ev[j] = "write"
              /\ ev[k] = "push" =>
                   /\ k = Len(ev)
                   /\ k = Len(made) + 2
                   /\ ev[k - 1] = "setref"
                   /\ ref[p] = made[Len(made)]
                   /\ Applied(hist[p].push) => remote.tip = ref[p]
         /\ (\A k \in 1..Len(ev) : ev[k] # "setref") => ref[p] = hist[p].tip0
         /\ pc[p] = "push" => ref[p] = made[Len(made)]
         /\ ref[p] # hist[p].tip0 => ref[p] = made[Len(made)]

C18_Witness ==
  \E p \in Procs :
    /\ Done(p, "ModifyCommit")
    /\ hist[p].events = <<"write", "write", "setref", "push">>
    /\ ref[p] = hist[p].made[2]
    /\ ref[p] # hist[p].made[1]

\* ---------------------------------------------------------------- C19
\* the call pushed its new chain and the remote took it
Published(p) == pc[p] = "done" /\ Applied(hist[p].push)

\* C19: the push of a rewrite is a blind overwrite: it is never refused on
\* account of what the remote holds, a push that delivers makes the call
\* return nil, and with two callers at once the push made last wins: the
\* remote tip is the new tip of a call that published, either this one's or
\* that of the other call, which then pushed over this one's tip
C19_LastPushWins ==
  \A p \in Procs :
    (call[p].op \in Rewrites /\ pc[p] = "done") =>
      /\ hist[p].push # "rejected"
      /\ hist[p].push = "ok" => result[p] = "nil"
      /\ Applied(hist[p].push) =>
           \/ remote.tip = ref[p]
           \/ \E q \in Procs \ {p} :
                /\ Published(q)
                /\ hist[q].over = ref[p]
                /\ remote.tip = ref[q]

\* ModifyCommit by caller p and DeleteCommit by caller q, both cloned from
\* the same remote tip; p pushed first, q pushed over it; both returned nil
\* and the remote holds q's chain, in which p's new message does not occur
C19_Witness ==
  \E p \in Procs, q \in Procs :
    /\ p # q
    /\ Done(p, "ModifyCommit") /\ Done(q, "DeleteCommit")
    /\ result[p] = "nil" /\ result[q] = "nil"
    /\ Published(p) /\ Published(q)
    /\ hist[p].tip0 = hist[q].tip0
    /\ hist[p].over = hist[p].tip0
    /\ hist[q].over = ref[p]
    /\ ref[p] # hist[p].tip0
    /\ remote.tip = ref[q]
    /\ \E c \in Reachable(store[p], ref[p]) : c.Message = call[p].msg
    /\ \A c \in Range(RemoteChain) : c.Message # call[p].msg
    /\ Len(RemoteChain) = Len(commits[q]) - 1

\* ---------------------------------------------------------------- C20
\* C20: a PushCommit that returns nil on a chain of length L has written one
\* commit, whose only parent is the tip it cloned, on top of the L commits
\* as they were (same hashes, none encoded again), and has pushed it without
\* force: the remote still held a commit of that chain when it took the
\* push, and holds the chain of L + 1 commits until another call pushes
C20_AppendsOneCommit ==
  \A p \in Procs :
    LET orig == OrigChain(p)
        new == NewChain(p)
    IN (Done(p, "PushCommit") /\ result[p] = "nil") =>
         /\ hist[p].push = "ok"
         /\ hist[p].made = <<ref[p]>>
         /\ hist[p].events = <<"write", "push">>
         /\ Len(new) = Len(orig) + 1
         /\ new[1].ParentHashes = <<hist[p].tip0>>
         /\ Tail(new) = orig
         /\ \E c \in Range(orig) : CommitHash(c) = hist[p].over
         /\ \/ remote.tip = ref[p] /\ RemoteChain = new
            \/ \E q \in Procs \ {p} :
                 /\ Published(q)
                 /\ hist[q].over = ref[p]
                 /\ remote.tip = ref[q]

C20_Witness ==
  \E p \in Procs :
    /\ Done(p, "PushCommit") /\ result[p] = "nil"
    /\ Len(OrigChain(p)) = 2
    /\ Len(RemoteChain) = 3
    /\ RemoteChain[1].ParentHashes = <<hist[p].tip0>>
    /\ CommitHash(RemoteChain[2]) = hist[p].tip0

\* the other caller rewrote the branch after this PushCommit had cloned: the
\* push is refused and the remote keeps the rewritten chain
C20_StalePushRefused ==
  \E p \in Procs :
    /\ Done(p, "PushCommit")
    /\ hist[p].push = "rejected"
    /\ result[p] = "err_push"
    /\ remote.tip # ref[p]
    /\ remote.tip # hist[p].tip0

\* ---------------------------------------------------------------- C21
\* C21: TrimOldCommits called with keep <= 0 on a chain that is not empty
\* does not take the no-op return (len(commits) <= keep is false) and indexes
\* commits[keep-1] below zero: it panics instead of returning a result, and
\* has then written no commit object, not set the local reference and not
\* pushed
C21_NonPositiveKeepPanics ==
  \A p \in Procs :
    (Done(p, "TrimOldCommits") /\ Collected(p) /\ call[p].keep <= 0) =>
      /\ ~TrimNoOp(Len(commits[p]), call[p].keep)
      /\ result[p] = "panic"
      /\ hist[p].made = <<>>
      /\ hist[p].events = <<>>
      /\ hist[p].push = "none"
      /\ store[p] = Range(commits[p])
      /\ ref[p] = hist[p].tip0
      /\ remote.tip = hist[p].tip0
      /\ RemoteChain = commits[p]

C21_Witness ==
  \E p \in Procs :
    /\ Done(p, "TrimOldCommits")
    /\ Len(commits[p]) = 2
    /\ call[p].keep = 0
    /\ result[p] = "panic"
    /\ remote.tip = hist[p].tip0







====
